---- MODULE Spec2Model ----
(***************************************************************************)
(* A model of utils.py: the camera helpers (intrinsic_mat, image2world,    *)
(* get_camera_coords) and the scene helpers (add_object, delete_object,    *)
(* set_layer).  A Python float is modelled as the exact rational <<n, d>> *)
(* with d > 0 in lowest terms: the rounding error of float arithmetic is   *)
(* not modelled.                                                           *)
(***************************************************************************)
EXTENDS Integers, Sequences, FiniteSets, TLC

VARIABLES cam, render, ret, objects, new_name, pc

vars == <<cam, render, ret, objects, new_name, pc>>

(***************************************************************************)
(* Bounds of the model.                                                    *)
(***************************************************************************)
\* world points have integer coordinates in -MaxCoord .. MaxCoord
MaxCoord == 1
\* at most this many objects in bpy.data.objects
MaxObjects == 2
\* obj.layers has this many entries
NumLayers == 3

(***************************************************************************)
(* Exact arithmetic standing for the float arithmetic of the code.         *)
(***************************************************************************)
Abs(n) == IF n < 0 THEN -n ELSE n

RECURSIVE GCD(_, _)
GCD(a, b) == IF b = 0 THEN a ELSE GCD(b, a % b)

\* n/d in lowest terms with a positive denominator, g their gcd
Lowest(n, d, g) == IF d < 0 THEN <<(-n) \div g, (-d) \div g>> ELSE <<n \div g, d \div g>>

Rat(n, d) == Lowest(n, d, GCD(Abs(n), Abs(d)))

RInt(n) == <<n, 1>>
RAdd(p, q) == Rat(p[1] * q[2] + q[1] * p[2], p[2] * q[2])
RSub(p, q) == Rat(p[1] * q[2] - q[1] * p[2], p[2] * q[2])
RMul(p, q) == Rat(p[1] * q[1], p[2] * q[2])
RNeg(p) == <<-p[1], p[2]>>
RIsZero(p) == p[1] = 0
\* p / q for q # 0 (the callers test q first: Python raises ZeroDivisionError)
RDiv(p, q) == Rat(p[1] * q[2], p[2] * q[1])
RLe(p, q) == p[1] * q[2] <= q[1] * p[2]
RLt(p, q) == p[1] * q[2] < q[1] * p[2]
RAbs(p) == <<Abs(p[1]), p[2]>>

Half == <<1, 2>>
Zero == <<0, 1>>

\* the exact square root of a square of a rational
ISqrt(n) == CHOOSE k \in 0..n : k * k = n
RSqrt(p) == <<ISqrt(p[1]), ISqrt(p[2])>>

\* int(x): truncation toward zero
PyInt(p) == IF p[1] >= 0 THEN p[1] \div p[2] ELSE -((-p[1]) \div p[2])

\* a variant of round that resolves a tie upwards
PyRoundHalfUp(p) ==
  LET f == p[1] \div p[2]
      r == p[1] - f * p[2]
  IN  IF 2 * r < p[2] THEN f ELSE f + 1

\* Python 3 round(x): to the nearest integer, a tie to the even one
PyRound(p) ==
  LET f == p[1] \div p[2]
      r == p[1] - f * p[2]
  IN  IF 2 * r < p[2] THEN f
      ELSE IF 2 * r > p[2] THEN f + 1
      ELSE IF f % 2 = 0 THEN f ELSE f + 1

(***************************************************************************)
(* mathutils.Vector and mathutils.Matrix.  A vector is <<x, y, z>>; a      *)
(* matrix is [rot |-> three rows of three, loc |-> translation].           *)
(***************************************************************************)
VNeg(v) == <<RNeg(v[1]), RNeg(v[2]), RNeg(v[3])>>
VSub(u, v) == <<RSub(u[1], v[1]), RSub(u[2], v[2]), RSub(u[3], v[3])>>
VAdd(u, v) == <<RAdd(u[1], v[1]), RAdd(u[2], v[2]), RAdd(u[3], v[3])>>
\* v / s
VDivS(v, s) == <<RDiv(v[1], s), RDiv(v[2], s), RDiv(v[3], s)>>
Dot(u, v) == RAdd(RAdd(RMul(u[1], v[1]), RMul(u[2], v[2])), RMul(u[3], v[3]))
VInt(x, y, z) == <<RInt(x), RInt(y), RInt(z)>>

Col(R, j) == <<R[1][j], R[2][j], R[3][j]>>
FromCols(c1, c2, c3) ==
  << <<c1[1], c2[1], c3[1]>>, <<c1[2], c2[2], c3[2]>>, <<c1[3], c2[3], c3[3]>> >>
MatVec3(R, v) == <<Dot(R[1], v), Dot(R[2], v), Dot(R[3], v)>>

\* Matrix * Vector: the 3D vector is extended by w = 1
MatVec(M, v) == VAdd(MatVec3(M.rot, v), M.loc)

\* Matrix.normalized(): each column of the 3x3 part divided by its length
\* (a zero column is left alone), the translation kept
DivLen(c, len) == IF RIsZero(len) THEN c ELSE VDivS(c, len)

NormCol(c) == DivLen(c, RSqrt(Dot(c, c)))

Normalized(M) ==
  [rot |-> FromCols(NormCol(Col(M.rot, 1)), NormCol(Col(M.rot, 2)),
                    NormCol(Col(M.rot, 3))),
   loc |-> M.loc]

Det3(R) ==
  RAdd(RSub(RMul(R[1][1], RSub(RMul(R[2][2], R[3][3]), RMul(R[2][3], R[3][2]))),
            RMul(R[1][2], RSub(RMul(R[2][1], R[3][3]), RMul(R[2][3], R[3][1])))),
       RMul(R[1][3], RSub(RMul(R[2][1], R[3][2]), RMul(R[2][2], R[3][1]))))

Minor(R, i, j) ==
  LET rs == IF i = 1 THEN <<2, 3>> ELSE IF i = 2 THEN <<1, 3>> ELSE <<1, 2>>
      cs == IF j = 1 THEN <<2, 3>> ELSE IF j = 2 THEN <<1, 3>> ELSE <<1, 2>>
  IN  RSub(RMul(R[rs[1]][cs[1]], R[rs[2]][cs[2]]),
           RMul(R[rs[1]][cs[2]], R[rs[2]][cs[1]]))

Cofactor(R, i, j) == RMul(RInt(IF (i + j) % 2 = 0 THEN 1 ELSE -1), Minor(R, i, j))

Adjugate(R, det) == [i \in 1..3 |-> [j \in 1..3 |-> RDiv(Cofactor(R, j, i), det)]]

Affine(inv, loc) == [rot |-> inv, loc |-> VNeg(MatVec3(inv, loc))]

\* Matrix.inverted() of an invertible matrix
Inverted(M) == Affine(Adjugate(M.rot, Det3(M.rot)), M.loc)

(***************************************************************************)
(* The scenes the camera helpers are called on: a camera object (its data  *)
(* and its world matrix) and the render settings of bpy.context.scene.     *)
(***************************************************************************)
CameraTypes == {"PERSP", "ORTHO"}
SensorFits == {"AUTO", "HORIZONTAL", "VERTICAL"}

\* <<lens, sensor_width, shift_x, shift_y, view_frame>>: lens and sensor
\* width are in mm; camera.view_frame(scene)[:3] is the top right, bottom
\* right and bottom left corner of the view plane in camera space, all at
\* one negative z
Lenses ==
  { <<RInt(35), RInt(32), Zero, Zero,
      << <<Half, Half, RInt(-1)>>, <<Half, RNeg(Half), RInt(-1)>>,
         <<RNeg(Half), RNeg(Half), RInt(-1)>> >> >>,
    <<RInt(50), RInt(36), Rat(1, 4), Rat(-1, 8),
      << <<Rat(3, 4), Rat(1, 4), RInt(-2)>>, <<Rat(3, 4), Rat(-1, 2), RInt(-2)>>,
         <<Rat(-1, 4), Rat(-1, 2), RInt(-2)>> >> >> }

\* cam.matrix_world: the identity; a quarter turn about z, scaled by 2; a
\* 3-4-5 turn about y, scaled by 5
WorldMatrices ==
  { [rot |-> <<VInt(1, 0, 0), VInt(0, 1, 0), VInt(0, 0, 1)>>, loc |-> VInt(0, 0, 0)],
    [rot |-> <<VInt(0, -2, 0), VInt(2, 0, 0), VInt(0, 0, 2)>>, loc |-> VInt(1, 0, -1)],
    [rot |-> <<VInt(3, 0, 4), VInt(0, 5, 0), VInt(-4, 0, 3)>>, loc |-> VInt(0, 2, 0)] }

Cameras ==
  { [type |-> t, sensor_fit |-> sf, lens |-> f[1], sensor_width |-> f[2],
     shift_x |-> f[3], shift_y |-> f[4], view_frame |-> f[5], matrix_world |-> m] :
    t \in CameraTypes, sf \in SensorFits, f \in Lenses, m \in WorldMatrices }

\* <<resolution_x, resolution_y, pixel_aspect_x, pixel_aspect_y>>
Resolutions ==
  { <<800, 600, RInt(1), RInt(1)>>, <<5, 3, RInt(1), RInt(2)>>,
    <<7, 6, RInt(2), RInt(1)>> }
Percentages == {100, 50}

Renders ==
  { [resolution_x |-> res[1], resolution_y |-> res[2], resolution_percentage |-> p,
     pixel_aspect_x |-> res[3], pixel_aspect_y |-> res[4]] :
    res \in Resolutions, p \in Percentages }

\* the world points get_camera_coords is called with
Coords == {RInt(k) : k \in -MaxCoord..MaxCoord}
WorldPoints == {<<x, y, z>> : x \in Coords, y \in Coords, z \in Coords}

\* the normalized view coordinates image2world is called with
ImXY == {Zero, Rat(1, 4), Half, RInt(1)}
ImDepths == Coords \cup {Half}
ImPositions == {<<x, y, z>> : x \in ImXY, y \in ImXY, z \in ImDepths}

(***************************************************************************)
(* intrinsic_mat                                                           *)
(***************************************************************************)
\* a variant that leaves out the sensor fit assertion
AssertsHoldNoFit(c, r) == r.resolution_percentage = 100

\* assert scene.render.resolution_percentage == 100
\* assert cam.sensor_fit != 'VERTICAL'
AssertsHold(c, r) == r.resolution_percentage = 100 /\ c.sensor_fit # "VERTICAL"

\* f_x = f_in_mm / sensor_width_in_mm * w; f_y = f_x * pixel_aspect
FocalLengths(c, r) ==
  <<RMul(RDiv(c.lens, c.sensor_width), RInt(r.resolution_x)),
    RMul(RMul(RDiv(c.lens, c.sensor_width), RInt(r.resolution_x)),
         RDiv(r.pixel_aspect_y, r.pixel_aspect_x))>>

\* a variant that takes shift_y as a fraction of the height
PrincipalPointShiftByHeight(c, r) ==
  <<RMul(RInt(r.resolution_x), RSub(Half, c.shift_x)),
    RAdd(RMul(RInt(r.resolution_y), Half), RMul(RInt(r.resolution_y), c.shift_y))>>

\* c_x = w * (0.5 - cam.shift_x); c_y = h * 0.5 + w * cam.shift_y
PrincipalPoint(c, r) ==
  <<RMul(RInt(r.resolution_x), RSub(Half, c.shift_x)),
    RAdd(RMul(RInt(r.resolution_y), Half), RMul(RInt(r.resolution_x), c.shift_y))>>

intrinsic_mat(c, r) ==
  IF ~AssertsHold(c, r)
  THEN [op |-> "intrinsic_mat", error |-> "AssertionError"]
  ELSE [op |-> "intrinsic_mat", error |-> "none",
        value |-> FocalLengths(c, r) \o PrincipalPoint(c, r)]

(***************************************************************************)
(* image2world                                                             *)
(***************************************************************************)
\* frame = [-v for v in camera.view_frame(scene=scene)[:3]]
NegFrame(c) == [i \in 1..3 |-> VNeg(c.view_frame[i])]

\* frame = [(v / (v.z / z)) for v in frame], where no division is by zero
ScaleFrame(frame, z) == [i \in 1..3 |-> VDivS(frame[i], RDiv(frame[i][3], z))]

\* v / (v.z / z) divides by zero for some corner v: z = 0, or v.z = 0
ScaleDividesByZero(frame, z) == RIsZero(z) \/ \E i \in 1..3 : RIsZero(frame[i][3])

\* a variant that rescales the frame of every camera
FrameAtAlwaysScaled(c, z) == ScaleFrame(NegFrame(c), z)

\* the frame the interpolation uses: rescaled unless the camera is ORTHO
FrameAt(c, z) ==
  IF c.type # "ORTHO" THEN ScaleFrame(NegFrame(c), z) ELSE NegFrame(c)

\* lines 59-65: min_x, max_x = frame[1].x, frame[2].x and
\* min_y, max_y = frame[0].y, frame[1].y; vec = Vector((cx, cy, -z))
LocalVec(frame, im_pos) ==
  <<RAdd(RMul(im_pos[1], RSub(frame[3][1], frame[2][1])), frame[2][1]),
    RAdd(RMul(im_pos[2], RSub(frame[2][2], frame[1][2])), frame[1][2]),
    RNeg(im_pos[3])>>

\* a variant that leaves out .normalized()
ToWorldUnnormalized(c, vec) == MatVec(c.matrix_world, vec)

\* line 73: return cam.matrix_world.normalized() * vec
ToWorld(c, vec) == MatVec(Normalized(c.matrix_world), vec)

Interpolated(c, frame, vec) ==
  [op |-> "image2world", error |-> "none", scaled |-> (c.type # "ORTHO"),
   frame |-> frame, vec |-> vec, value |-> ToWorld(c, vec)]

\* line 55: return Vector((0.5, 0.5, 0.0))
CenterResult(c) == <<Half, Half, Zero>>

image2world(c, im_pos) ==
  IF c.type # "ORTHO" /\ im_pos[1] = Half /\ im_pos[2] = Half /\ im_pos[3] = Zero
  THEN [op |-> "image2world", error |-> "none", scaled |-> FALSE,
        value |-> CenterResult(c)]
  ELSE IF c.type # "ORTHO" /\ ScaleDividesByZero(NegFrame(c), im_pos[3])
  THEN [op |-> "image2world", error |-> "ZeroDivisionError", scaled |-> FALSE]
  ELSE Interpolated(c, FrameAt(c, im_pos[3]), LocalVec(FrameAt(c, im_pos[3]), im_pos))

(***************************************************************************)
(* get_camera_coords                                                       *)
(***************************************************************************)
\* x = (co_local.x - min_x) / (max_x - min_x), y likewise
ViewCoords(frame, co_local) ==
  <<RDiv(RSub(co_local[1], frame[2][1]), RSub(frame[3][1], frame[2][1])),
    RDiv(RSub(co_local[2], frame[1][2]), RSub(frame[2][2], frame[1][2])),
    RNeg(co_local[3])>>

CameraView(c, co_local) ==
  IF c.type # "ORTHO" /\ RIsZero(co_local[3]) THEN <<Half, Half, Zero>>
  ELSE ViewCoords(FrameAt(c, RNeg(co_local[3])), co_local)

\* bpy_extras.object_utils.world_to_camera_view(scene, cam, pos), on a camera
\* whose view frame is a rectangle at a nonzero depth:
\* co_local = obj.matrix_world.normalized().inverted() * coord; z = -co_local.z
world_to_camera_view(c, coord) ==
  CameraView(c, MatVec(Inverted(Normalized(c.matrix_world)), coord))

\* assert d1+d2+d3 <= 0.001
SignedSumCheck(d) == RLe(RAdd(RAdd(d[1], d[2]), d[3]), Rat(1, 1000))

\* w = int(scale * resolution_x), h = int(scale * resolution_y)
EffectiveSize(r) ==
  <<PyInt(RMul(Rat(r.resolution_percentage, 100), RInt(r.resolution_x))),
    PyInt(RMul(Rat(r.resolution_percentage, 100), RInt(r.resolution_y)))>>

\* px = int(round(x * w)); py = int(round(h - y * h))
Pixel(n, size) ==
  <<PyRound(RMul(n[1], RInt(size[1]))),
    PyRound(RSub(RInt(size[2]), RMul(n[2], RInt(size[2]))))>>

\* lines 135-140, with res = image2world(cam, (x,y,z), scene)
Checked(pos, n, pixel, res) ==
  IF res.error # "none"
  THEN [op |-> "get_camera_coords", error |-> res.error, norm |-> n]
  ELSE IF SignedSumCheck(VSub(res.value, pos))
  THEN [op |-> "get_camera_coords", error |-> "none", norm |-> n,
        res |-> res.value, value |-> <<pixel[1], pixel[2], n[3]>>]
  ELSE [op |-> "get_camera_coords", error |-> "AssertionError", norm |-> n,
        res |-> res.value]

Projected(c, r, pos, n) ==
  Checked(pos, n, Pixel(n, EffectiveSize(r)), image2world(c, n))

get_camera_coords(c, r, pos) == Projected(c, r, pos, world_to_camera_view(c, pos))

(***************************************************************************)
(* The objects of the scene (bpy.data.objects).  A name is a sequence of   *)
(* characters; an object is [name, layers, select].                        *)
(***************************************************************************)
\* the names add_object is called with; the second starts with the first
BaseNames == {<<"a">>, <<"a", "b">>}

Layers == 0..(NumLayers - 1)

\* the layers an appended object may be on (the active layers of the scene)
AppendLayers == {{0}, {0, 1}}

\* obj.name.startswith(name)
startswith(s, prefix) ==
  Len(s) >= Len(prefix) /\ SubSeq(s, 1, Len(prefix)) = prefix

DigitChar(d) == <<"0", "1", "2", "3", "4", "5", "6", "7", "8", "9">>[d + 1]

\* '%d' % n for n >= 0
RECURSIVE FormatInt(_)
FormatInt(n) ==
  IF n < 10 THEN <<DigitChar(n)>> ELSE FormatInt(n \div 10) \o <<DigitChar(n % 10)>>

\* '%s_%d' % (name, count)
FormatName(name, count) == name \o <<"_">> \o FormatInt(count)

Names(objs) == {objs[i].name : i \in 1..Len(objs)}

\* the host keeps object names unique: a name that is taken gets the first
\* free suffix .001, .002, ...
HostUniqueName(taken, n) ==
  IF n \notin taken THEN n
  ELSE LET k == CHOOSE k \in 1..(Cardinality(taken) + 1) :
                  /\ (n \o <<".", "0", "0">> \o FormatInt(k)) \notin taken
                  /\ \A j \in 1..(k - 1) :
                       (n \o <<".", "0", "0">> \o FormatInt(j)) \in taken
       IN  n \o <<".", "0", "0">> \o FormatInt(k)

\* count = number of objects whose name starts with name
CountPrefix(objs, name) ==
  Cardinality({i \in 1..Len(objs) : startswith(objs[i].name, name)})

Idle == [at |-> "idle", obj |-> 0, layer_idx |-> 0, i |-> 0]

(***************************************************************************)
(* The state machine.                                                      *)
(***************************************************************************)
NoCall == [op |-> "none", error |-> "none"]

Init ==
  /\ cam \in Cameras
  /\ render \in Renders
  /\ ret = NoCall
  /\ objects = <<>>
  /\ new_name = <<>>
  /\ pc = Idle

\* the caller takes the returned value (or the exception): the call is over
Return ==
  /\ ret.op # "none"
  /\ ret' = NoCall
  /\ UNCHANGED <<cam, render, objects, new_name, pc>>

\* intrinsic_mat(cam.data)
IntrinsicMat ==
  /\ ret.op = "none"
  /\ ret' = intrinsic_mat(cam, render)
  /\ UNCHANGED <<cam, render, objects, new_name, pc>>

\* image2world(cam, im_pos, scene)
Image2World ==
  \E im_pos \in ImPositions :
    /\ ret.op = "none"
    /\ ret' = [image2world(cam, im_pos) EXCEPT !.op = "image2world"] @@ [args |-> im_pos]
    /\ UNCHANGED <<cam, render, objects, new_name, pc>>

\* get_camera_coords(cam, pos)
GetCameraCoords ==
  \E pos \in WorldPoints :
    /\ ret.op = "none"
    /\ ret' = get_camera_coords(cam, render, pos) @@ [args |-> pos]
    /\ UNCHANGED <<cam, render, objects, new_name, pc>>

\* add_object(object_dir, name, scale, loc, theta): the object is appended
\* under the name `name` and renamed to '%s_%d' % (name, count)
AddObject ==
  \E name \in BaseNames, on \in AppendLayers :
    /\ pc.at = "idle"
    /\ Len(objects) < MaxObjects
    /\ LET count == CountPrefix(objects, name)
           computed == FormatName(name, count)
           given == HostUniqueName(Names(objects), computed)
       IN  /\ new_name' = computed
           /\ objects' = [i \in 1..Len(objects) |-> [objects[i] EXCEPT !.select = FALSE]]
                           \o <<[name |-> given, layers |-> [l \in Layers |-> l \in on],
                                 select |-> TRUE]>>
    /\ pc' = Idle
    /\ UNCHANGED <<cam, render, ret>>

\* delete_object(obj): every object is deselected, obj is selected, and
\* bpy.ops.object.delete() removes the selected objects
DeleteObject ==
  \E k \in 1..Len(objects) :
    /\ pc.at = "idle"
    /\ LET marked == [i \in 1..Len(objects) |-> [objects[i] EXCEPT !.select = (i = k)]]
       IN  objects' = SelectSeq(marked, LAMBDA o : ~o.select)
    /\ new_name' = <<>>
    /\ pc' = Idle
    /\ UNCHANGED <<cam, render, ret>>

\* a variant that leaves out the first assignment
SetLayerFirstSkipped(layers, layer_idx) == layers

\* set_layer(obj, layer_idx), line 147: obj.layers[layer_idx] = True
SetLayerFirst(layers, layer_idx) == [layers EXCEPT ![layer_idx] = TRUE]

SetLayerBegin ==
  \E k \in 1..Len(objects), layer_idx \in Layers :
    /\ pc.at = "idle"
    /\ objects' = [objects EXCEPT ![k].layers = SetLayerFirst(@, layer_idx)]
    /\ pc' = [at |-> "loop", obj |-> k, layer_idx |-> layer_idx, i |-> 0]
    /\ new_name' = <<>>
    /\ UNCHANGED <<cam, render, ret>>

\* set_layer, lines 148-149: obj.layers[i] = (i == layer_idx), one i a step
SetLayerLoop ==
  /\ pc.at = "loop"
  /\ objects' = [objects EXCEPT ![pc.obj].layers[pc.i] = (pc.i = pc.layer_idx)]
  /\ pc' = [pc EXCEPT !.i = pc.i + 1,
                      !.at = IF pc.i + 1 < NumLayers THEN "loop" ELSE "idle"]
  /\ UNCHANGED <<cam, render, ret, new_name>>

Next ==
  \/ IntrinsicMat
  \/ Image2World
  \/ GetCameraCoords
  \/ Return

Spec == Init /\ [][Next]_vars

\* the scene helpers, on the scene of one camera
SceneInit ==
  /\ cam = CHOOSE c \in Cameras : TRUE
  /\ render = CHOOSE r \in Renders : TRUE
  /\ ret = NoCall
  /\ objects = <<>>
  /\ new_name = <<>>
  /\ pc = Idle

SceneNext ==
  \/ AddObject
  \/ DeleteObject
  \/ SetLayerBegin
  \/ SetLayerLoop

SceneSpec == SceneInit /\ [][SceneNext]_vars

(***************************************************************************)
(* The claims.                                                             *)
(***************************************************************************)
Tolerance == Rat(1, 1000)

\* u and v differ by at most the tolerance on every axis
WithinTolerance(u, v) == \A k \in 1..3 : RLe(RAbs(RSub(u[k], v[k])), Tolerance)

Returned(op) == ret.op = op /\ ret.error = "none"

Center == <<Half, Half, Zero>>

\* C1: intrinsic_mat fails with an assertion error and returns no value
\* whenever resolution_percentage is not 100 or the sensor fit is VERTICAL;
\* with resolution_percentage = 100 and another sensor fit neither assertion
\* fails and (fx, fy, cx, cy) is returned.
C1_IntrinsicPreconditions ==
  ret.op = "intrinsic_mat" =>
    /\ (render.resolution_percentage # 100 \/ cam.sensor_fit = "VERTICAL")
         => (ret.error = "AssertionError" /\ "value" \notin DOMAIN ret)
    /\ (render.resolution_percentage = 100 /\ cam.sensor_fit # "VERTICAL")
         => (ret.error = "none" /\ Len(ret.value) = 4)

\* intrinsic_mat has failed on the sensor fit alone
C1_Witness ==
  /\ ret.op = "intrinsic_mat"
  /\ ret.error = "AssertionError"
  /\ render.resolution_percentage = 100
  /\ cam.sensor_fit = "VERTICAL"

\* C2: when the preconditions hold, intrinsic_mat returns, in this order,
\* fx = (focal_length / sensor_width) * width, fy = fx * (pixel_aspect_y /
\* pixel_aspect_x), cx = width * (0.5 - shift_x), cy = height * 0.5 + width *
\* shift_y; for focal length 35, sensor width 32, 800x600, pixel aspect 1 and
\* no shift that is (875, 875, 400, 300).
C2_IntrinsicValues ==
  Returned("intrinsic_mat") =>
    LET width == RInt(render.resolution_x)
        height == RInt(render.resolution_y)
        fx == RMul(RDiv(cam.lens, cam.sensor_width), width)
        fy == RMul(fx, RDiv(render.pixel_aspect_y, render.pixel_aspect_x))
        cx == RMul(width, RSub(Half, cam.shift_x))
        cy == RAdd(RMul(height, Half), RMul(width, cam.shift_y))
    IN  /\ ret.value = <<fx, fy, cx, cy>>
        /\ ( /\ cam.lens = RInt(35) /\ cam.sensor_width = RInt(32)
             /\ render.resolution_x = 800 /\ render.resolution_y = 600
             /\ render.pixel_aspect_x = render.pixel_aspect_y
             /\ cam.shift_x = Zero /\ cam.shift_y = Zero )
           => ret.value = <<RInt(875), RInt(875), RInt(400), RInt(300)>>

\* intrinsic_mat has returned for the 35mm / 32mm / 800x600 example
C2_Witness ==
  /\ Returned("intrinsic_mat")
  /\ cam.lens = RInt(35) /\ cam.sensor_width = RInt(32)
  /\ render.resolution_x = 800 /\ render.resolution_y = 600
  /\ render.pixel_aspect_x = render.pixel_aspect_y
  /\ cam.shift_x = Zero /\ cam.shift_y = Zero

\* C3: get_camera_coords returns (px, py, depth) only when image2world of the
\* normalized (x, y, z) recovers the world point within the tolerance on
\* every axis, and fails with an assertion error whenever the recovered point
\* is off by more than the tolerance on some axis, in either direction.
C3_ProjectOnlyWhenConsistent ==
  ret.op = "get_camera_coords" =>
    /\ ret.error = "none" => WithinTolerance(ret.res, ret.args)
    /\ ("res" \in DOMAIN ret /\ ~WithinTolerance(ret.res, ret.args))
         => ret.error = "AssertionError"

\* C4: for a perspective camera and a world point strictly in front of it,
\* image2world of the normalized coordinates of the point returns a point
\* within 1e-3 of it on each axis.
C4_RoundTrip ==
  (ret.op = "get_camera_coords" /\ cam.type = "PERSP" /\ RLt(Zero, ret.norm[3])) =>
    /\ "res" \in DOMAIN ret
    /\ ret.res = image2world(cam, ret.norm).value
    /\ WithinTolerance(ret.res, ret.args)

\* a point in front of a turned, scaled and moved perspective camera has been
\* projected
C4_Witness ==
  /\ Returned("get_camera_coords")
  /\ cam.type = "PERSP"
  /\ RLt(Zero, ret.norm[3])
  /\ cam.matrix_world.loc # VInt(0, 0, 0)
  /\ ret.norm[1] # Half

\* C5: for a perspective camera, image2world of exactly (0.5, 0.5, 0.0)
\* returns, without the depth division, the view-frame centre direction
\* scaled to zero depth as a world-space point: the camera-space origin taken
\* through the camera's normalized world matrix.
C5_CenterIsWorldPoint ==
  (ret.op = "image2world" /\ cam.type # "ORTHO" /\ ret.args = Center) =>
    /\ ret.error = "none"
    /\ ~ret.scaled
    /\ ret.value = MatVec(Normalized(cam.matrix_world), VInt(0, 0, 0))

\* C6: every call returns or fails with one of two error kinds, the
\* assertion of intrinsic_mat (precondition) or the assertion of
\* get_camera_coords (consistency); no call divides by zero.
C6_TwoErrorKinds ==
  \/ ret.error = "none"
  \/ ret.error = "AssertionError" /\ ret.op \in {"intrinsic_mat", "get_camera_coords"}

\* v * s
VMulS(v, s) == <<RMul(v[1], s), RMul(v[2], s), RMul(v[3], s)>>

\* C7: for an ORTHO camera image2world never rescales the frame: the frame it
\* interpolates is the negated view frame, the camera-space x and y of the
\* result are interpolated from it and are the same at every depth, and the
\* camera-space z is -z; for a perspective camera and z # 0 every corner v is
\* scaled by z / v.z first.
C7_OrthoUnscaled ==
  ret.op = "image2world" =>
    LET x == ret.args[1]
        y == ret.args[2]
        z == ret.args[3]
        corners == NegFrame(cam)
    IN  /\ cam.type = "ORTHO" =>
             /\ ret.error = "none"
             /\ ~ret.scaled
             /\ ret.frame = corners
             /\ ret.vec = <<RAdd(RMul(x, RSub(corners[3][1], corners[2][1])), corners[2][1]),
                            RAdd(RMul(y, RSub(corners[2][2], corners[1][2])), corners[1][2]),
                            RNeg(z)>>
             /\ \A z2 \in ImDepths :
                  LET other == image2world(cam, <<x, y, z2>>)
                  IN  /\ other.error = "none"
                      /\ other.vec[1] = ret.vec[1]
                      /\ other.vec[2] = ret.vec[2]
                      /\ other.vec[3] = RNeg(z2)
        /\ (cam.type = "PERSP" /\ z # Zero) =>
             /\ ret.error = "none"
             /\ ret.scaled
             /\ \A i \in 1..3 : ret.frame[i] = VMulS(corners[i], RDiv(z, corners[i][3]))

\* image2world has returned for the centre input at depth 0 on an ORTHO camera
C7_Witness ==
  /\ Returned("image2world")
  /\ cam.type = "ORTHO"
  /\ ret.args = Center

\* k is q rounded to the nearest integer, a tie to the even one
IsNearestEven(k, q) ==
  /\ k \in Int
  /\ RLe(RAbs(RSub(RInt(k), q)), Half)
  /\ RAbs(RSub(RInt(k), q)) = Half => k % 2 = 0

\* C8: a successful get_camera_coords returns px = round(x * w), py =
\* round(h - y * h) and depth = z, with w and h the resolution scaled by
\* resolution_percentage / 100 and truncated, round to the nearest integer
\* and a tie to the even one, for any resolution_percentage.
C8_PixelCoordinates ==
  Returned("get_camera_coords") =>
    /\ ret.norm = world_to_camera_view(cam, ret.args)
    /\ ret.value[3] = ret.norm[3]
    /\ LET w == (render.resolution_x * render.resolution_percentage) \div 100
           h == (render.resolution_y * render.resolution_percentage) \div 100
       IN  /\ IsNearestEven(ret.value[1], RMul(ret.norm[1], RInt(w)))
           /\ IsNearestEven(ret.value[2], RSub(RInt(h), RMul(ret.norm[2], RInt(h))))

\* get_camera_coords has returned at a scaled resolution whose width is
\* truncated, with x * w and h - y * h both halfway between two integers
C8_Witness ==
  /\ Returned("get_camera_coords")
  /\ render.resolution_percentage # 100
  /\ render.resolution_x % 2 = 1
  /\ RMul(ret.norm[1], RInt(EffectiveSize(render)[1]))[2] = 2
  /\ RMul(ret.norm[2], RInt(EffectiveSize(render)[2]))[2] = 2

\* C9: the name add_object computes for the appended object differs from the
\* name of every object that was already in the scene.
C9_NewNameUnique ==
  new_name # <<>> =>
    \A i \in 1..(Len(objects) - 1) : objects[i].name # new_name

OnSomeLayer(o) == \E l \in Layers : o.layers[l]

\* C10: an object stays on at least one layer after every assignment of
\* set_layer, the target layer is set before any layer is cleared, and when
\* set_layer has finished the object is on layer_idx and on no other layer.
C10_SetLayer ==
  /\ \A i \in 1..Len(objects) : OnSomeLayer(objects[i])
  /\ pc.at = "loop" => objects[pc.obj].layers[pc.layer_idx]
  /\ (pc.at = "idle" /\ pc.i = NumLayers) =>
       objects[pc.obj].layers = [l \in Layers |-> l = pc.layer_idx]

\* set_layer has finished moving an object to the last layer
C10_Witness ==
  /\ pc.at = "idle"
  /\ pc.i = NumLayers
  /\ pc.layer_idx = NumLayers - 1

====
